---- MODULE Spec2Model ----
(***************************************************************************)
(* Model of package json (falun/json): UnmarshalX / Unmarshal, the Options *)
(* rules (Required, Forbidden, NullNotPresent, GlobalNullNotPresent,       *)
(* FailFast), and the ErrorCollection they produce.                        *)
(*                                                                         *)
(* Documents are modelled as parsed JSON texts (malformed text, top-level  *)
(* null, top-level array, or an object of members), the destination as the *)
(* two-field struct of json_test.go.  encoding/json is an external         *)
(* primitive; jsonUnmarshalMap and jsonUnmarshal model the two ways the    *)
(* package calls it.                                                       *)
(*                                                                         *)
(* Spec     : each call runs as one atomic action (sequential behaviour).  *)
(* SpecConc : two calls sharing one Options value, interleaved statement   *)
(*            by statement.                                                *)
(***************************************************************************)
EXTENDS Integers, Sequences, FiniteSets, TLC

VARIABLES
  opts,         \* the Options value a non-nil pcfg points to (shared by the callers)
  opts0,        \* opts as it was when the calls were issued
  data,         \* data[p]: the document passed by caller p
  v0,           \* v0[p]: the destination's contents when the call was made
  v,            \* v[p]: the destination's contents now
  pcfg,         \* pcfg[p]: "nil" or "ptr" (a pointer to opts)
  api,          \* api[p]: which entry point caller p used
  pc,           \* pc[p]: position of caller p in UnmarshalX
  dest,         \* dest[p]: UnmarshalX's local map[string]*json.RawMessage
  cfg,          \* cfg[p]: UnmarshalX's local builtOptions
  errors,       \* errors[p]: UnmarshalX's local []ValidationError
  idx,          \* idx[p]: index of the running range loop
  evaluated,    \* evaluated[p]: number of rule iterations executed
  typedDecode,  \* typedDecode[p]: json.Unmarshal(data, v) has been invoked
  ret           \* ret[p]: the returned error

vars == <<opts, opts0, data, v0, v, pcfg, api, pc, dest, cfg, errors, idx,
          evaluated, typedDecode, ret>>

----------------------------------------------------------------------------
(* Bounds *)

MaxRules == 2
MaxNullNotPresent == 1
ConcMaxRules == 2

Procs == {1, 2}
Keys == {"foo", "bar"}

----------------------------------------------------------------------------
(* ValidationErrorType and ValidationError *)

MissingKey == 0
ForbiddenKey == 1

ValidationError(type, key) == [Type |-> type, Key |-> key]

----------------------------------------------------------------------------
(* error values *)

NoError == [kind |-> "nil", into |-> "", errors |-> <<>>]
SyntaxError == [kind |-> "SyntaxError", into |-> "", errors |-> <<>>]
UnmarshalTypeError(goType) ==
  [kind |-> "UnmarshalTypeError", into |-> goType, errors |-> <<>>]
ErrorCollection(errs) == [kind |-> "ErrorCollection", into |-> "", errors |-> errs]

----------------------------------------------------------------------------
(* JSON documents *)

JNull == [t |-> "null", keys |-> {}]
JStr == [t |-> "str", keys |-> {}]
JNum == [t |-> "num", keys |-> {}]
\* a nested object, or an array whose element is an object, holding keys S
JObj(S) == [t |-> "obj", keys |-> S]
JArr(S) == [t |-> "arr", keys |-> S]

\* the values a member may hold: under "foo" an array whose element holds
\* "bar", under "bar" an object that holds "foo"
ValuesAt(k) ==
  {JNull, JStr, JNum} \cup (IF k = "foo" THEN {JArr({"bar"})} ELSE {JObj({"foo"})})

EmptyMap == [k \in {} |-> JNull]

Malformed == [t |-> "malformed", members |-> EmptyMap]
TopNull == [t |-> "null", members |-> EmptyMap]
TopArray == [t |-> "array", members |-> EmptyMap]
Object(m) == [t |-> "object", members |-> m]

Members(S) == {m \in [S -> UNION {ValuesAt(k) : k \in S}] : \A k \in S : m[k] \in ValuesAt(k)}

Objects == {Object(m) : m \in UNION {Members(S) : S \in SUBSET Keys}}
Documents == {Malformed, TopNull, TopArray} \cup Objects

----------------------------------------------------------------------------
(* Options *)

SeqsUpTo(S, n) == UNION {[1..m -> S] : m \in 0..n}

MakeOptions(g, ff, nnp, req, forb) ==
  [GlobalNullNotPresent |-> g, FailFast |-> ff, NullNotPresent |-> nnp,
   Required |-> req, Forbidden |-> forb]

OptionsSet ==
  {MakeOptions(g, ff, nnp, req, forb) :
     g \in BOOLEAN, ff \in BOOLEAN,
     nnp \in SeqsUpTo(Keys, MaxNullNotPresent),
     req \in SeqsUpTo(Keys, MaxRules),
     forb \in SeqsUpTo(Keys, MaxRules)}

EmptyOptions == MakeOptions(FALSE, FALSE, <<>>, <<>>, <<>>)

Range(s) == {s[i] : i \in 1..Len(s)}

\* builtOptions: the embedded Options and the map[string]bool, kept as the
\* set of keys mapped to true
prepareOptions(o) ==
  [Options |-> o, nullNotPresentSet |-> Range(o.NullNotPresent)]

\* variant of nullIsPresent that never consults nullNotPresentSet
nullIsPresentIgnoresSet(bo, s) ==
  IF bo.Options.GlobalNullNotPresent THEN FALSE ELSE TRUE

\* given a key return if null should be considered a "set" value
nullIsPresent(bo, s) ==
  IF bo.Options.GlobalNullNotPresent
    THEN FALSE
    ELSE ~(s \in bo.nullNotPresentSet)

----------------------------------------------------------------------------
(* encoding/json as the package uses it *)

NilRaw == [t |-> "nil", keys |-> {}]

\* json.Unmarshal(data, &dest) with dest a fresh map[string]*json.RawMessage
jsonUnmarshalMap(d) ==
  CASE d.t = "malformed" -> [err |-> SyntaxError, dest |-> EmptyMap]
    [] d.t = "null" -> [err |-> NoError, dest |-> EmptyMap]
    [] d.t = "array" ->
         [err |-> UnmarshalTypeError("map[string]*json.RawMessage"),
          dest |-> EmptyMap]
    [] OTHER ->
         [err |-> NoError,
          dest |-> [k \in DOMAIN d.members |->
                      IF d.members[k].t = "null" THEN NilRaw ELSE d.members[k]]]

\* the destination: TestStruct{Foo string; Bar *int}
ZeroStruct == [Foo |-> "", Bar |-> "nil"]
UsedStruct == [Foo |-> "old", Bar |-> "old"]
Destinations == {ZeroStruct, UsedStruct}

FooMismatch(m) == "foo" \in DOMAIN m /\ m["foo"].t \in {"num", "obj", "arr"}
BarMismatch(m) == "bar" \in DOMAIN m /\ m["bar"].t \in {"str", "obj", "arr"}

DecodeFoo(m, old) ==
  IF "foo" \in DOMAIN m /\ m["foo"].t = "str" THEN "str" ELSE old

DecodeBar(m, old) ==
  CASE ~("bar" \in DOMAIN m) -> old
    [] m["bar"].t = "null" -> "nil"
    [] m["bar"].t = "num" -> "num"
    [] OTHER -> IF old = "nil" THEN "ptr0" ELSE old

\* json.Unmarshal(data, v) with v a *TestStruct
jsonUnmarshal(d, dst) ==
  CASE d.t = "malformed" -> [err |-> SyntaxError, v |-> dst]
    [] d.t = "null" -> [err |-> NoError, v |-> dst]
    [] d.t = "array" -> [err |-> UnmarshalTypeError("TestStruct"), v |-> dst]
    [] OTHER ->
         [err |-> IF FooMismatch(d.members) THEN UnmarshalTypeError("string")
                  ELSE IF BarMismatch(d.members) THEN UnmarshalTypeError("int")
                  ELSE NoError,
          v |-> [Foo |-> DecodeFoo(d.members, dst.Foo),
                 Bar |-> DecodeBar(d.members, dst.Bar)]]

----------------------------------------------------------------------------
(* UnmarshalX, statement by statement *)

NoCfg == prepareOptions(EmptyOptions)

\* variant of parseFailed that drops the err check
parseFailedNever(m) == FALSE

\* if err != nil { return err }
parseFailed(m) == m.err # NoError

\* variant of addError that always returns false
addErrorNeverStops(bo, errs, ve) ==
  [errors |-> Append(errs, ve), stop |-> FALSE]

\* the addError closure: append, and tell the caller whether to stop
addError(bo, errs, ve) ==
  [errors |-> Append(errs, ve), stop |-> bo.Options.FailFast]

\* variant of present that also finds a key held by a nested value
presentDeep(bo, dst, s) ==
  \/ /\ s \in DOMAIN dst
     /\ ~(dst[s] = NilRaw /\ bo.Options.GlobalNullNotPresent)
     /\ ~(dst[s] = NilRaw /\ ~nullIsPresent(bo, s))
  \/ \E k \in DOMAIN dst : s \in dst[k].keys

\* the present closure
present(bo, dst, s) ==
  IF ~(s \in DOMAIN dst) THEN FALSE
  ELSE IF dst[s] = NilRaw /\ bo.Options.GlobalNullNotPresent THEN FALSE
  ELSE IF dst[s] = NilRaw /\ ~nullIsPresent(bo, s) THEN FALSE
  ELSE TRUE

\* the state the two range loops carry
LoopStart == [errors |-> <<>>, stop |-> FALSE, evaluated |-> 0]

\* one iteration of: for _, reqKey := range cfg.Required
requiredIteration(bo, dst, st, reqKey) ==
  IF ~present(bo, dst, reqKey)
    THEN LET r == addError(bo, st.errors, ValidationError(MissingKey, reqKey))
         IN [errors |-> r.errors, stop |-> r.stop, evaluated |-> st.evaluated + 1]
    ELSE [st EXCEPT !.evaluated = @ + 1]

\* variant of forbiddenIteration that reports only keys present() accepts
forbiddenIterationNullAware(bo, dst, st, forbKey) ==
  IF present(bo, dst, forbKey)
    THEN LET r == addError(bo, st.errors, ValidationError(ForbiddenKey, forbKey))
         IN [errors |-> r.errors, stop |-> r.stop, evaluated |-> st.evaluated + 1]
    ELSE [st EXCEPT !.evaluated = @ + 1]

\* one iteration of: for _, forbKey := range cfg.Forbidden
\* (the body calls addError whatever dest holds)
forbiddenIteration(bo, dst, st, forbKey) ==
  LET r == addError(bo, st.errors, ValidationError(ForbiddenKey, forbKey))
  IN [errors |-> r.errors, stop |-> r.stop, evaluated |-> st.evaluated + 1]

RECURSIVE requiredLoop(_, _, _, _)
requiredLoop(bo, dst, st, i) ==
  IF st.stop \/ i > Len(bo.Options.Required) THEN st
  ELSE requiredLoop(bo, dst,
                    requiredIteration(bo, dst, st, bo.Options.Required[i]), i + 1)

RECURSIVE forbiddenLoop(_, _, _, _)
forbiddenLoop(bo, dst, st, i) ==
  IF st.stop \/ i > Len(bo.Options.Forbidden) THEN st
  ELSE forbiddenLoop(bo, dst,
                     forbiddenIteration(bo, dst, st, bo.Options.Forbidden[i]), i + 1)

\* variant of validate with the two loops swapped
validateForbiddenFirst(bo, dst) ==
  LET f == forbiddenLoop(bo, dst, LoopStart, 1)
  IN IF f.stop THEN f ELSE requiredLoop(bo, dst, f, 1)

\* the two loops in sequence; a stop in the first jumps to done
validate(bo, dst) ==
  LET r == requiredLoop(bo, dst, LoopStart, 1)
  IN IF r.stop THEN r ELSE forbiddenLoop(bo, dst, r, 1)

\* variant of done that decodes into the destination before testing errors
doneDecodesAnyway(d, dst, errs) ==
  LET r == jsonUnmarshal(d, dst)
  IN IF Len(errs) # 0
       THEN [ret |-> ErrorCollection(errs), v |-> r.v, typedDecode |-> TRUE]
       ELSE [ret |-> r.err, v |-> r.v, typedDecode |-> TRUE]

\* the done label
done(d, dst, errs) ==
  IF Len(errs) # 0
    THEN [ret |-> ErrorCollection(errs), v |-> dst, typedDecode |-> FALSE]
    ELSE LET r == jsonUnmarshal(d, dst)
         IN [ret |-> r.err, v |-> r.v, typedDecode |-> TRUE]

\* UnmarshalX(data, v, pcfg) with *pcfg = o: the values of the locals, the
\* destination and the returned error when the call returns
UnmarshalX(d, dst, p, o) ==
  IF p = "nil"
    THEN LET r == jsonUnmarshal(d, dst)
         IN [ret |-> r.err, v |-> r.v, dest |-> EmptyMap, cfg |-> NoCfg,
             errors |-> <<>>, evaluated |-> 0, typedDecode |-> TRUE]
    ELSE LET m == jsonUnmarshalMap(d)
         IN IF parseFailed(m)
              THEN [ret |-> m.err, v |-> dst, dest |-> m.dest, cfg |-> NoCfg,
                    errors |-> <<>>, evaluated |-> 0, typedDecode |-> FALSE]
              ELSE LET bo == prepareOptions(o)
                       st == validate(bo, m.dest)
                       fin == done(d, dst, st.errors)
                   IN [ret |-> fin.ret, v |-> fin.v, dest |-> m.dest, cfg |-> bo,
                       errors |-> st.errors, evaluated |-> st.evaluated,
                       typedDecode |-> fin.typedDecode]

\* variant of Unmarshal that passes &Options{} instead of nil
UnmarshalWithEmptyOptions(d, dst) == UnmarshalX(d, dst, "ptr", EmptyOptions)

\* Unmarshal defers to UnmarshalX with nil options
Unmarshal(d, dst) == UnmarshalX(d, dst, "nil", EmptyOptions)

----------------------------------------------------------------------------
(* Sequential behaviour: caller 1 makes one call, caller 2 stays idle *)

NilCaseOptions ==
  {EmptyOptions, MakeOptions(FALSE, FALSE, <<>>, <<"foo">>, <<"bar">>)}

Idle(p) ==
  /\ data[p] = TopNull
  /\ v[p] = ZeroStruct
  /\ pcfg[p] = "nil"
  /\ pc[p] = "idle"

Locals ==
  /\ api = [p \in Procs |-> "none"]
  /\ dest = [p \in Procs |-> EmptyMap]
  /\ cfg = [p \in Procs |-> NoCfg]
  /\ errors = [p \in Procs |-> <<>>]
  /\ idx = [p \in Procs |-> 0]
  /\ evaluated = [p \in Procs |-> 0]
  /\ typedDecode = [p \in Procs |-> FALSE]
  /\ ret = [p \in Procs |-> NoError]

Init ==
  /\ data \in [Procs -> Documents]
  /\ v \in [Procs -> Destinations]
  /\ pcfg \in [Procs -> {"nil", "ptr"}]
  /\ pc = [p \in Procs |-> IF p = 1 THEN "ready" ELSE "idle"]
  /\ Idle(2)
  /\ \/ pcfg[1] = "ptr" /\ opts \in OptionsSet
     \/ pcfg[1] = "nil" /\ opts \in NilCaseOptions
  /\ opts0 = opts
  /\ v0 = v
  /\ Locals

Return(p, entry, r) ==
  /\ api' = [api EXCEPT ![p] = entry]
  /\ ret' = [ret EXCEPT ![p] = r.ret]
  /\ v' = [v EXCEPT ![p] = r.v]
  /\ dest' = [dest EXCEPT ![p] = r.dest]
  /\ cfg' = [cfg EXCEPT ![p] = r.cfg]
  /\ errors' = [errors EXCEPT ![p] = r.errors]
  /\ evaluated' = [evaluated EXCEPT ![p] = r.evaluated]
  /\ typedDecode' = [typedDecode EXCEPT ![p] = r.typedDecode]
  /\ pc' = [pc EXCEPT ![p] = "done"]
  /\ UNCHANGED <<opts, opts0, data, v0, pcfg, idx>>

UnmarshalXCall(p) ==
  /\ pc[p] = "ready"
  /\ Return(p, "UnmarshalX", UnmarshalX(data[p], v[p], pcfg[p], opts))

UnmarshalCall(p) ==
  /\ pc[p] = "ready"
  /\ Return(p, "Unmarshal", Unmarshal(data[p], v[p]))

Next ==
  \/ \E p \in Procs : UnmarshalXCall(p)
  \/ \E p \in Procs : UnmarshalCall(p)

Spec == Init /\ [][Next]_vars

----------------------------------------------------------------------------
(* Vocabulary of the properties *)

\* caller p has returned from UnmarshalX called with non-nil Options
Called(p) == pc[p] = "done" /\ api[p] = "UnmarshalX" /\ pcfg[p] = "ptr"

\* the document parses into the key-to-value map
Parses(d) == d.t \in {"object", "null"}

Exists(d, k) == k \in DOMAIN d.members

IsNullIn(d, k) == Exists(d, k) /\ d.members[k].t = "null"

\* presence as the documentation of Options states it
Present(o, d, k) ==
  /\ Exists(d, k)
  /\ \/ d.members[k].t # "null"
     \/ ~o.GlobalNullNotPresent /\ ~(k \in Range(o.NullNotPresent))

Count(es, e) == Cardinality({i \in 1..Len(es) : es[i] = e})

Reported(es, e) == \E i \in 1..Len(es) : es[i] = e

NoDuplicates(s) == \A i, j \in 1..Len(s) : s[i] = s[j] => i = j

FirstIndex(s, x) == CHOOSE i \in 1..Len(s) : s[i] = x /\ \A j \in 1..(i - 1) : s[j] # x

KeysOf(es) == [i \in 1..Len(es) |-> es[i].Key]

\* a is b with some entries left out
RECURSIVE IsSubseq(_, _)
IsSubseq(a, b) ==
  IF Len(a) = 0 THEN TRUE
  ELSE IF Len(b) = 0 THEN FALSE
  ELSE IF Head(a) = Head(b) THEN IsSubseq(Tail(a), Tail(b))
  ELSE IsSubseq(a, Tail(b))

\* what the same call returns when FailFast is switched off
WithoutFailFast(p) ==
  UnmarshalX(data[p], v0[p], "ptr", [opts EXCEPT !.FailFast = FALSE])

----------------------------------------------------------------------------
(* C1 *)

\* C1 (as claimed): ForbiddenKey(k) is reported only if k exists in the
\* document, and a parsed document that holds no forbidden key and satisfies
\* Required is decoded.
C1_ForbiddenOnlyIfExists ==
  \A p \in Procs :
    Called(p) /\ Parses(data[p]) =>
      /\ \A i \in 1..Len(ret[p].errors) :
           ret[p].errors[i].Type = ForbiddenKey =>
             Exists(data[p], ret[p].errors[i].Key)
      /\ ( /\ \A k \in Range(opts.Forbidden) : ~Exists(data[p], k)
           /\ \A k \in Range(opts.Required) : Present(opts, data[p], k) )
         => ret[p].kind # "ErrorCollection" /\ typedDecode[p]

----------------------------------------------------------------------------
(* C2 *)

\* C2: without FailFast, MissingKey(k) is reported exactly for the keys k of
\* Required that are not present, presence being: the key exists and its
\* value is non-null, or null counts (GlobalNullNotPresent off and k not in
\* NullNotPresent).
C2_MissingExactlyWhenNotPresent ==
  \A p \in Procs :
    Called(p) /\ Parses(data[p]) /\ ~opts.FailFast =>
      \A k \in Keys :
        Reported(ret[p].errors, ValidationError(MissingKey, k))
          <=> (k \in Range(opts.Required) /\ ~Present(opts, data[p], k))

C2_Witness ==
  \E p \in Procs :
    /\ Called(p) /\ ~opts.FailFast
    /\ opts.GlobalNullNotPresent
    /\ opts.NullNotPresent = <<"bar">>
    /\ opts.Required = <<"foo", "bar">>
    /\ IsNullIn(data[p], "foo")
    /\ Exists(data[p], "bar") /\ data[p].members["bar"] = JNum
    /\ ret[p].errors = <<ValidationError(MissingKey, "foo")>>

----------------------------------------------------------------------------
(* C3 *)

\* C3: without FailFast and without duplicates in Forbidden, every forbidden
\* key that exists in the document gets exactly one ForbiddenKey entry,
\* whatever its value and whatever the null policy.
C3_ExactlyOneForbiddenKey ==
  \A p \in Procs :
    Called(p) /\ Parses(data[p]) /\ ~opts.FailFast /\ NoDuplicates(opts.Forbidden) =>
      \A k \in Range(opts.Forbidden) :
        Exists(data[p], k) =>
          Count(ret[p].errors, ValidationError(ForbiddenKey, k)) = 1

C3_Witness ==
  \E p \in Procs :
    /\ Called(p) /\ ~opts.FailFast
    /\ opts.GlobalNullNotPresent
    /\ opts.Forbidden = <<"bar", "foo">>
    /\ IsNullIn(data[p], "bar")
    /\ Count(ret[p].errors, ValidationError(ForbiddenKey, "bar")) = 1

----------------------------------------------------------------------------
(* C4 *)

\* C4: with FailFast, whenever the call without FailFast reports violations,
\* the call returns an ErrorCollection of exactly one entry, the first of
\* those, and it has evaluated no rule after the one that produced it.
C4_FailFastReturnsFirst ==
  \A p \in Procs :
    Called(p) /\ Parses(data[p]) /\ opts.FailFast
      /\ WithoutFailFast(p).errors # <<>> =>
        LET first == Head(WithoutFailFast(p).errors)
            rule == IF first.Type = MissingKey
                      THEN FirstIndex(opts.Required, first.Key)
                      ELSE Len(opts.Required) + FirstIndex(opts.Forbidden, first.Key)
        IN /\ ret[p] = ErrorCollection(<<first>>)
           /\ evaluated[p] = rule

C4_Witness ==
  \E p \in Procs :
    /\ Called(p) /\ opts.FailFast
    /\ Len(WithoutFailFast(p).errors) >= 3
    /\ Len(ret[p].errors) = 1
    /\ evaluated[p] = 2

----------------------------------------------------------------------------
(* C5 *)

TwoWays(p) ==
  \/ /\ errors[p] = <<>>
     /\ typedDecode[p]
     /\ ret[p] = jsonUnmarshal(data[p], v0[p]).err
     /\ v[p] = jsonUnmarshal(data[p], v0[p]).v
  \/ /\ errors[p] # <<>>
     /\ ret[p] = ErrorCollection(errors[p])
     /\ ~typedDecode[p]
     /\ v[p] = v0[p]

NeverPartial(p) ==
  /\ errors[p] # <<>> => v[p] = v0[p] /\ ~typedDecode[p]
  /\ ret[p].kind = "ErrorCollection" => ret[p].errors # <<>>

\* C5 (as claimed): every call with non-nil Options ends either with zero
\* violations and the typed decode performed, its result returned as-is, or
\* with a non-empty ErrorCollection and the destination unmodified.
C5_Original ==
  \A p \in Procs : Called(p) => TwoWays(p) /\ NeverPartial(p)

\* C5 (amended): every call with non-nil Options whose document parses into
\* the key map ends in one of those two ways; in every call the destination
\* is not written when a violation exists and no empty ErrorCollection is
\* returned.
C5_DecodeOrCollection ==
  \A p \in Procs :
    Called(p) => (Parses(data[p]) => TwoWays(p)) /\ NeverPartial(p)

C5_Witness ==
  \E p \in Procs :
    /\ Called(p)
    /\ errors[p] # <<>>
    /\ v0[p] = UsedStruct
    /\ jsonUnmarshal(data[p], v0[p]).v # v0[p]
    /\ v[p] = v0[p]

----------------------------------------------------------------------------
(* C6 *)

MissingCount(es) == Cardinality({i \in 1..Len(es) : es[i].Type = MissingKey})

\* C6: without FailFast the ErrorCollection holds the MissingKey entries, in
\* the order of Required, then the ForbiddenKey entries, in the order of
\* Forbidden; a key violating both rules has both entries, MissingKey first.
C6_RequiredThenForbidden ==
  \A p \in Procs :
    Called(p) /\ Parses(data[p]) /\ ~opts.FailFast =>
      LET es == ret[p].errors
          n == MissingCount(es)
          absent(k) == ~Present(opts, data[p], k)
      IN /\ \A i \in 1..Len(es) :
              es[i].Type = IF i <= n THEN MissingKey ELSE ForbiddenKey
         /\ KeysOf(SubSeq(es, 1, n)) = SelectSeq(opts.Required, absent)
         /\ IsSubseq(KeysOf(SubSeq(es, n + 1, Len(es))), opts.Forbidden)
         /\ \A k \in Range(opts.Required) \cap Range(opts.Forbidden) :
              absent(k) /\ Exists(data[p], k) =>
                /\ Reported(es, ValidationError(MissingKey, k))
                /\ Reported(es, ValidationError(ForbiddenKey, k))
                /\ FirstIndex(es, ValidationError(MissingKey, k))
                     < FirstIndex(es, ValidationError(ForbiddenKey, k))

C6_Witness ==
  \E p \in Procs :
    /\ Called(p) /\ ~opts.FailFast
    /\ opts.Required = <<"bar", "foo">>
    /\ opts.Forbidden = <<"foo", "bar">>
    /\ opts.NullNotPresent = <<"foo">>
    /\ IsNullIn(data[p], "foo")
    /\ Exists(data[p], "bar") /\ data[p].members["bar"] = JNum
    /\ ret[p].errors = <<ValidationError(MissingKey, "foo"),
                         ValidationError(ForbiddenKey, "foo"),
                         ValidationError(ForbiddenKey, "bar")>>

----------------------------------------------------------------------------
(* C7 *)

\* C7: with no options (pcfg nil, or Unmarshal) the call returns what the
\* plain decode returns and leaves in the destination what the plain decode
\* leaves; nothing is validated and no ErrorCollection is returned.
C7_NilOptionsIsPlainDecode ==
  \A p \in Procs :
    pc[p] = "done" /\ (api[p] = "Unmarshal" \/ pcfg[p] = "nil") =>
      /\ ret[p] = jsonUnmarshal(data[p], v0[p]).err
      /\ v[p] = jsonUnmarshal(data[p], v0[p]).v
      /\ ret[p].kind # "ErrorCollection"
      /\ errors[p] = <<>>
      /\ evaluated[p] = 0

C7_Witness ==
  \E p \in Procs :
    /\ pc[p] = "done" /\ api[p] = "Unmarshal" /\ pcfg[p] = "ptr"
    /\ opts.Required = <<"foo">>
    /\ data[p].t = "array"
    /\ ret[p] = UnmarshalTypeError("TestStruct")

----------------------------------------------------------------------------
(* C8 *)

\* C8: when the document does not parse into the key map, the call with
\* non-nil Options returns the parse error, not an ErrorCollection; no rule
\* is evaluated, no ValidationError recorded, the destination not written.
C8_ParseErrorReturnedAtOnce ==
  \A p \in Procs :
    Called(p) /\ ~Parses(data[p]) =>
      /\ ret[p] = IF data[p].t = "malformed" THEN SyntaxError
                  ELSE UnmarshalTypeError("map[string]*json.RawMessage")
      /\ errors[p] = <<>>
      /\ evaluated[p] = 0
      /\ ~typedDecode[p]
      /\ v[p] = v0[p]

C8_Witness ==
  \E p \in Procs :
    /\ Called(p)
    /\ data[p] = Malformed
    /\ opts.Required # <<>> /\ opts.Forbidden # <<>>
    /\ ret[p] = SyntaxError

----------------------------------------------------------------------------
(* C9 *)

NestedOnly(d, k) ==
  ~Exists(d, k) /\ \E j \in DOMAIN d.members : k \in d.members[j].keys

\* C9: a required key that occurs only inside a nested object or array
\* element is reported missing, and every reported ValidationError is a
\* (Type, Key) pair whose key is one of the declared rule keys.
C9_OutermostObjectOnly ==
  \A p \in Procs :
    Called(p) /\ Parses(data[p]) =>
      /\ ~opts.FailFast =>
           \A k \in Range(opts.Required) :
             NestedOnly(data[p], k) =>
               Reported(ret[p].errors, ValidationError(MissingKey, k))
      /\ \A i \in 1..Len(ret[p].errors) :
           /\ DOMAIN ret[p].errors[i] = {"Type", "Key"}
           /\ ret[p].errors[i].Key \in Range(opts.Required) \cup Range(opts.Forbidden)

C9_Witness ==
  \E p \in Procs :
    /\ Called(p) /\ ~opts.FailFast
    /\ opts.Required = <<"bar">>
    /\ data[p].t = "object"
    /\ DOMAIN data[p].members = {"foo"}
    /\ data[p].members["foo"] = JArr({"bar"})
    /\ ret[p] = ErrorCollection(<<ValidationError(MissingKey, "bar")>>)

----------------------------------------------------------------------------
(* Concurrent behaviour: both callers run UnmarshalX statement by          *)
(* statement, a non-nil pcfg pointing to the one shared Options value      *)

ConcOptionsSet ==
  {MakeOptions(g, ff, nnp, req, forb) :
     g \in BOOLEAN, ff \in BOOLEAN,
     nnp \in {<<>>, <<"foo">>},
     req \in SeqsUpTo(Keys, ConcMaxRules),
     forb \in SeqsUpTo(Keys, ConcMaxRules)}

ConcDocuments ==
  {Malformed,
   Object([k \in {"foo"} |-> JNull]),
   Object([k \in {"bar"} |-> JNum])}

InitConc ==
  /\ opts \in ConcOptionsSet
  /\ opts0 = opts
  /\ data \in [Procs -> ConcDocuments]
  /\ v = [p \in Procs |-> ZeroStruct]
  /\ v0 = v
  /\ pcfg \in [Procs -> {"nil", "ptr"}]
  /\ pcfg[1] = "ptr"
  /\ pc = [p \in Procs |-> "start"]
  /\ Locals

\* lines 95-105: the nil test, the parse into the map, the early return
Begin(p) ==
  /\ pc[p] = "start"
  /\ api' = [api EXCEPT ![p] = "UnmarshalX"]
  /\ IF pcfg[p] = "nil"
       THEN LET r == jsonUnmarshal(data[p], v[p])
            IN /\ ret' = [ret EXCEPT ![p] = r.err]
               /\ v' = [v EXCEPT ![p] = r.v]
               /\ typedDecode' = [typedDecode EXCEPT ![p] = TRUE]
               /\ pc' = [pc EXCEPT ![p] = "done"]
               /\ UNCHANGED dest
       ELSE LET m == jsonUnmarshalMap(data[p])
            IN /\ dest' = [dest EXCEPT ![p] = m.dest]
               /\ IF parseFailed(m)
                    THEN /\ ret' = [ret EXCEPT ![p] = m.err]
                         /\ pc' = [pc EXCEPT ![p] = "done"]
                    ELSE /\ pc' = [pc EXCEPT ![p] = "prepare"]
                         /\ UNCHANGED ret
               /\ UNCHANGED <<v, typedDecode>>
  /\ UNCHANGED <<opts, opts0, data, v0, pcfg, cfg, errors, idx, evaluated>>

\* lines 108-110: cfg := prepareOptions(*pcfg, v); errors := []ValidationError{}
Prepare(p) ==
  /\ pc[p] = "prepare"
  /\ cfg' = [cfg EXCEPT ![p] = prepareOptions(opts)]
  /\ errors' = [errors EXCEPT ![p] = <<>>]
  /\ idx' = [idx EXCEPT ![p] = 1]
  /\ pc' = [pc EXCEPT ![p] = "required"]
  /\ UNCHANGED <<opts, opts0, data, v0, v, pcfg, api, dest, evaluated,
                 typedDecode, ret>>

LoopState(p) == [errors |-> errors[p], stop |-> FALSE, evaluated |-> evaluated[p]]

\* variant of Record with errors one slice shared by all callers
RecordShared(p, st) ==
  /\ errors' = [q \in Procs |-> IF q = p THEN st.errors
                                ELSE errors[q] \o SubSeq(st.errors, Len(errors[p]) + 1,
                                                         Len(st.errors))]
  /\ evaluated' = [evaluated EXCEPT ![p] = st.evaluated]

\* what one loop iteration leaves in the caller's own errors slice
Record(p, st) ==
  /\ errors' = [errors EXCEPT ![p] = st.errors]
  /\ evaluated' = [evaluated EXCEPT ![p] = st.evaluated]

\* lines 129-133: one turn of the loop over cfg.Required
RequiredStep(p) ==
  /\ pc[p] = "required"
  /\ IF idx[p] > Len(cfg[p].Options.Required)
       THEN /\ pc' = [pc EXCEPT ![p] = "forbidden"]
            /\ idx' = [idx EXCEPT ![p] = 1]
            /\ UNCHANGED <<errors, evaluated>>
       ELSE LET st == requiredIteration(cfg[p], dest[p], LoopState(p),
                                        cfg[p].Options.Required[idx[p]])
            IN /\ Record(p, st)
               /\ IF st.stop
                    THEN pc' = [pc EXCEPT ![p] = "finish"] /\ UNCHANGED idx
                    ELSE idx' = [idx EXCEPT ![p] = @ + 1] /\ UNCHANGED pc
  /\ UNCHANGED <<opts, opts0, data, v0, v, pcfg, api, dest, cfg, typedDecode, ret>>

\* lines 135-139: one turn of the loop over cfg.Forbidden
ForbiddenStep(p) ==
  /\ pc[p] = "forbidden"
  /\ IF idx[p] > Len(cfg[p].Options.Forbidden)
       THEN /\ pc' = [pc EXCEPT ![p] = "finish"]
            /\ UNCHANGED <<errors, evaluated, idx>>
       ELSE LET st == forbiddenIteration(cfg[p], dest[p], LoopState(p),
                                         cfg[p].Options.Forbidden[idx[p]])
            IN /\ Record(p, st)
               /\ IF st.stop
                    THEN pc' = [pc EXCEPT ![p] = "finish"] /\ UNCHANGED idx
                    ELSE idx' = [idx EXCEPT ![p] = @ + 1] /\ UNCHANGED pc
  /\ UNCHANGED <<opts, opts0, data, v0, v, pcfg, api, dest, cfg, typedDecode, ret>>

\* lines 141-146: the done label
Finish(p) ==
  /\ pc[p] = "finish"
  /\ LET r == done(data[p], v[p], errors[p])
     IN /\ ret' = [ret EXCEPT ![p] = r.ret]
        /\ v' = [v EXCEPT ![p] = r.v]
        /\ typedDecode' = [typedDecode EXCEPT ![p] = r.typedDecode]
  /\ pc' = [pc EXCEPT ![p] = "done"]
  /\ UNCHANGED <<opts, opts0, data, v0, pcfg, api, dest, cfg, errors, idx, evaluated>>

NextConc ==
  \/ \E p \in Procs : Begin(p)
  \/ \E p \in Procs : Prepare(p)
  \/ \E p \in Procs : RequiredStep(p)
  \/ \E p \in Procs : ForbiddenStep(p)
  \/ \E p \in Procs : Finish(p)

SpecConc == InitConc /\ [][NextConc]_vars

----------------------------------------------------------------------------
(* C10 *)

Alone(p) == UnmarshalX(data[p], v0[p], pcfg[p], opts0)

\* C10: the Options a call was given are never modified, every call that
\* has returned, however the two calls interleaved, has the result, the
\* error list and the destination it has when run alone, and two calls on
\* the same bytes and Options return the same error.
C10_CallsAreIndependent ==
  /\ opts = opts0
  /\ \A p \in Procs :
       pc[p] = "done" =>
         /\ ret[p] = Alone(p).ret
         /\ errors[p] = Alone(p).errors
         /\ v[p] = Alone(p).v
         /\ cfg[p].Options \in {opts0, EmptyOptions}
  /\ \A p, q \in Procs :
       pc[p] = "done" /\ pc[q] = "done" /\ data[p] = data[q] /\ pcfg[p] = pcfg[q]
         => ret[p] = ret[q]

C10_Witness ==
  /\ \A p \in Procs : pc[p] = "done" /\ pcfg[p] = "ptr"
  /\ data[1] # data[2]
  /\ ~opts.FailFast
  /\ Len(ret[1].errors) = 2
  /\ ret[2].kind = "ErrorCollection"
  /\ ret[1] # ret[2]

====
